---- MODULE Spec2Model ----
(***************************************************************************)
(* Invoice server actions of src/app/lib/actions.ts: createInvoice,        *)
(* updateInvoice and deleteInvoice over the invoices table, in the two     *)
(* versions the file holds (lines 1-79, "permissive": Schema.parse, no     *)
(* try/catch; lines 81-197, "strict": Schema.safeParse, try/catch around   *)
(* the SQL statement).                                                     *)
(*                                                                         *)
(* A handler is an async function.  Its code up to `await sql` runs in one *)
(* step (Create/Update/Delete), the database then executes the statement   *)
(* atomically or fails it, and the code after the await runs to the end of *)
(* the handler (DbExecute; the code after the await reads and writes no    *)
(* shared state).  Several requests may be in flight at once.              *)
(*                                                                         *)
(* The table starts with one row, written by an earlier createInvoice, and *)
(* the store assigns the ids 1, 2, ... to the rows it inserts.  Request    *)
(* slots are interchangeable, so a new request takes the lowest free one.  *)
(*                                                                         *)
(* Numbers are exact decimal fractions [num, den] with den a power of ten. *)
(* JavaScript computes amount * 100 in IEEE-754 doubles; the amounts used  *)
(* here ("49.99", "1.234", "0", "-5") are ones whose double product equals *)
(* the exact one (4999, 123.4, 0, -500).                                   *)
(***************************************************************************)
EXTENDS Integers, Sequences, FiniteSets, TLC

VARIABLES variant, today, invoices, nextId, calls, req

vars == <<variant, today, invoices, nextId, calls, req>>

(* ------------------------------ bounds --------------------------------- *)
MaxCalls == 2
MaxRows == 2
MaxDay == 2
MaxInFlight == 2

Requests == 1..MaxInFlight
RowIds == 1..MaxRows

(* --------------------------- raw form values --------------------------- *)
\* FormData.get(name): null when the field is absent, else the string sent.
Null(empty) == [type |-> "null", val |-> empty]
Str(s) == [type |-> "string", val |-> s]

CustomerIdInputs == {Null(""), Str(""), Str("c1")}
AmountInputs == {Null(<<>>), Str(<<"a", "b">>), Str(<<"0">>), Str(<<"-", "5">>),
                 Str(<<"4", "9", ".", "9", "9">>), Str(<<"1", ".", "2", "3", "4">>)}
StatusInputs == {Null(""), Str("void"), Str("pending"), Str("paid")}

Forms == [customerId : CustomerIdInputs, amount : AmountInputs, status : StatusInputs]

\* The forms submitted while several requests are in flight.
SystemForms ==
    [customerId : {Str("c1")},
     amount : {Str(<<"0">>), Str(<<"1", ".", "2", "3", "4">>)},
     status : {Str("paid")}]

(* ------------------------------ numbers -------------------------------- *)
Digits == <<"0", "1", "2", "3", "4", "5", "6", "7", "8", "9">>
DigitSet == {Digits[i] : i \in 1..10}
DigitVal(c) == (CHOOSE i \in 1..10 : Digits[i] = c) - 1

RECURSIVE ToNat(_)
ToNat(s) == IF s = <<>> THEN 0 ELSE ToNat(SubSeq(s, 1, Len(s) - 1)) * 10 + DigitVal(s[Len(s)])

RECURSIVE Pow10(_)
Pow10(k) == IF k = 0 THEN 1 ELSE 10 * Pow10(k - 1)

RECURSIVE Normalise(_)
Normalise(n) ==
    IF n.den > 1 /\ n.num % 10 = 0
    THEN Normalise([num |-> n.num \div 10, den |-> n.den \div 10])
    ELSE n

NaN == [nan |-> TRUE, num |-> 0, den |-> 1]
Num(n, d) ==
    LET m == Normalise([num |-> n, den |-> d]) IN [nan |-> FALSE, num |-> m.num, den |-> m.den]

AllDigits(s) == \A i \in 1..Len(s) : s[i] \in DigitSet

\* Number(string) for an unsigned decimal literal: digits, digits "." digits,
\* "." digits or digits "."; anything else is NaN.
UnsignedLiteral(s) ==
    LET dots == {i \in 1..Len(s) : s[i] = "."} IN
    IF dots = {}
    THEN IF Len(s) > 0 /\ AllDigits(s) THEN Num(ToNat(s), 1) ELSE NaN
    ELSE IF Cardinality(dots) > 1 THEN NaN
    ELSE LET d == CHOOSE i \in dots : TRUE
             ip == SubSeq(s, 1, d - 1)
             fp == SubSeq(s, d + 1, Len(s))
         IN IF Len(ip) + Len(fp) > 0 /\ AllDigits(ip) /\ AllDigits(fp)
            THEN Num(ToNat(ip) * Pow10(Len(fp)) + ToNat(fp), Pow10(Len(fp)))
            ELSE NaN

\* z.coerce.number() calls Number(input): Number(null) = 0, Number("") = 0,
\* a signed decimal literal is its value, any other string is NaN.
Number(v) ==
    IF v.type = "null" THEN Num(0, 1)
    ELSE IF v.val = <<>> THEN Num(0, 1)
    ELSE IF v.val[1] \in {"-", "+"}
         THEN LET u == UnsignedLiteral(Tail(v.val)) IN
              IF u.nan THEN NaN
              ELSE IF v.val[1] = "-" THEN Num(0 - u.num, u.den) ELSE u
    ELSE UnsignedLiteral(v.val)

Times100(n) == Num(n.num * 100, n.den)

IsInteger(n) == n.den = 1

\* Math.round: the nearest integer, halves towards +infinity.
Round(n) == Num((2 * n.num + n.den) \div (2 * n.den), 1)

(* ------------------------------ schema --------------------------------- *)
StatusEnum == {"pending", "paid"}

\* FormSchema: the issues zod raises for one submitted form, at most one per
\* field.  Messages without a custom text in the schema are zod's defaults.
CustomerIdIssues(v, form) ==
    IF form.customerId.type = "string" THEN {}
    ELSE {[path |-> "customerId", code |-> "invalid_type",
           message |-> IF v = "strict" THEN "Please select a customer."
                       ELSE "Expected string, received null"]}

\* Mutant: gt(0) written as gte(0).
AmountIssues_Gte(v, form) ==
    LET n == Number(form.amount) IN
    IF n.nan
    THEN {[path |-> "amount", code |-> "invalid_type",
           message |-> "Expected number, received nan"]}
    ELSE IF v = "strict" /\ ~(n.num >= 0)
    THEN {[path |-> "amount", code |-> "too_small",
           message |-> "Please enter an amount greater than $0."]}
    ELSE {}

AmountIssues(v, form) ==
    LET n == Number(form.amount) IN
    IF n.nan
    THEN {[path |-> "amount", code |-> "invalid_type",
           message |-> "Expected number, received nan"]}
    ELSE IF v = "strict" /\ ~(n.num > 0)
    THEN {[path |-> "amount", code |-> "too_small",
           message |-> "Please enter an amount greater than $0."]}
    ELSE {}

\* Mutant: z.string() in place of z.enum([...]).
StatusIssues_AnyString(v, form) ==
    IF form.status.type # "string"
    THEN {[path |-> "status", code |-> "invalid_type",
           message |-> IF v = "strict" THEN "Please select an invoice status."
                       ELSE "Expected string, received null"]}
    ELSE {}

StatusIssues(v, form) ==
    IF form.status.type # "string"
    THEN {[path |-> "status", code |-> "invalid_type",
           message |-> IF v = "strict" THEN "Please select an invoice status."
                       ELSE "Expected 'pending' | 'paid', received null"]}
    ELSE IF form.status.val \notin StatusEnum
    THEN {[path |-> "status", code |-> "invalid_enum_value",
           message |-> "Invalid enum value. Expected 'pending' | 'paid'"]}
    ELSE {}

SchemaIssues(v, form) ==
    CustomerIdIssues(v, form) \cup AmountIssues(v, form) \cup StatusIssues(v, form)

\* error.flatten().fieldErrors: the messages of each field that has issues.
FieldErrors(issues) ==
    [f \in {i.path : i \in issues} |-> LET i == CHOOSE j \in issues : j.path = f IN <<i.message>>]

\* The parsed data of a form without issues.
ParsedData(form) ==
    [customerId |-> form.customerId.val, amount |-> Number(form.amount),
     status |-> form.status.val]

(* ----------------------------- statements ------------------------------ *)
NoStmt == [kind |-> "none"]

InsertStmt(data, date) ==
    [kind |-> "INSERT", customer_id |-> data.customerId,
     amount |-> Times100(data.amount), status |-> data.status, date |-> date]

UpdateStmt(id, data) ==
    [kind |-> "UPDATE", id |-> id, customer_id |-> data.customerId,
     amount |-> Times100(data.amount), status |-> data.status]

DeleteStmt(id) == [kind |-> "DELETE", id |-> id]

\* Mutant: the UPDATE also stamps the date.
UpdatedRow_SetsDate(row, stmt) ==
    [id |-> row.id, customer_id |-> stmt.customer_id, amount |-> stmt.amount,
     status |-> stmt.status, date |-> today]

\* The row an UPDATE leaves in place of `row`.
UpdatedRow(row, stmt) ==
    [id |-> row.id, customer_id |-> stmt.customer_id, amount |-> stmt.amount,
     status |-> stmt.status, date |-> row.date]

\* Mutant: DELETE FROM invoices without its WHERE clause.
Apply_DeleteAll(table, stmt, id) ==
    CASE stmt.kind = "INSERT" ->
           table \cup {[id |-> id, customer_id |-> stmt.customer_id, amount |-> stmt.amount,
                        status |-> stmt.status, date |-> stmt.date]}
      [] stmt.kind = "UPDATE" ->
           {IF row.id = stmt.id THEN UpdatedRow(row, stmt) ELSE row : row \in table}
      [] stmt.kind = "DELETE" -> {}

\* Mutant: an UPDATE that matches no row inserts one (upsert).
Apply_Upsert(table, stmt, id) ==
    CASE stmt.kind = "INSERT" ->
           table \cup {[id |-> id, customer_id |-> stmt.customer_id, amount |-> stmt.amount,
                        status |-> stmt.status, date |-> stmt.date]}
      [] stmt.kind = "UPDATE" ->
           IF \E row \in table : row.id = stmt.id
           THEN {IF row.id = stmt.id THEN UpdatedRow(row, stmt) ELSE row : row \in table}
           ELSE table \cup {[id |-> stmt.id, customer_id |-> stmt.customer_id,
                             amount |-> stmt.amount, status |-> stmt.status, date |-> today]}
      [] stmt.kind = "DELETE" ->
           {row \in table : row.id # stmt.id}

\* The table after the database has executed a statement; `id` is the
\* identifier the store assigns to an inserted row.
Apply(table, stmt, id) ==
    CASE stmt.kind = "INSERT" ->
           table \cup {[id |-> id, customer_id |-> stmt.customer_id, amount |-> stmt.amount,
                        status |-> stmt.status, date |-> stmt.date]}
      [] stmt.kind = "UPDATE" ->
           {IF row.id = stmt.id THEN UpdatedRow(row, stmt) ELSE row : row \in table}
      [] stmt.kind = "DELETE" ->
           {row \in table : row.id # stmt.id}

\* The number of rows the database reports as affected by a statement.
Affected(table, stmt) ==
    IF stmt.kind = "INSERT" THEN 1
    ELSE Cardinality({row \in table : row.id = stmt.id})

(* ------------------------------ handlers ------------------------------- *)
Undefined == <<>>
NoForm == <<>>

NoError == [name |-> "none"]

\* A request: where its handler stands (pc), its arguments (op, id, form), the
\* statement it sent, how the database settled it (db) and how many rows it
\* reported as affected (count, which no handler reads), the calls it made
\* to its collaborators (log), the value it returned and the error it threw.
Idle ==
    [pc |-> "idle", op |-> "none", id |-> 0, form |-> NoForm, stmt |-> NoStmt,
     db |-> "none", count |-> 0, log |-> <<>>, result |-> Undefined, thrown |-> NoError]

ValidationMessage(op) ==
    IF op = "create" THEN "Missing fields. Failed to create invoice."
    ELSE "Missing fields. Failed to update invoice."

DatabaseMessage(op) ==
    IF op = "create" THEN "Database Error: Failed to create invoice."
    ELSE "Database Error: Failed to Update Invoice."

\* Mutant: no try/catch around the SQL statement.
TryRegion_None(v, op) == {}

\* Mutant: the try block also encloses revalidatePath and redirect.
TryRegion_All(v, op) ==
    IF v = "strict" /\ op \in {"create", "update"} THEN {"sql", "revalidatePath", "redirect"} ELSE {}

\* The statements of a handler that lie inside its try block.
TryRegion(v, op) ==
    IF v = "strict" /\ op \in {"create", "update"} THEN {"sql"} ELSE {}

\* The calls a handler makes after its SQL statement succeeded.
AfterWrite(op) ==
    IF op = "delete" THEN <<"revalidatePath">> ELSE <<"revalidatePath", "redirect">>

\* The handler has sent its statement and awaits the database.
Issued(op, id, form, stmt) ==
    [Idle EXCEPT !.pc = "pending", !.op = op, !.id = id, !.form = form,
                 !.stmt = stmt, !.log = <<"sql">>]

\* Mutant: the handler goes on to its statement although validation failed.
Rejected_NoReturn(v, op, id, form) ==
    Issued(op, id, form,
           IF op = "create" THEN InsertStmt(ParsedData(form), today)
           ELSE UpdateStmt(id, ParsedData(form)))

\* Schema.parse (permissive) throws a ZodError on any issue; Schema.safeParse
\* (strict) makes the handler return {errors, message}.
Rejected(v, op, id, form) ==
    IF v = "strict"
    THEN [Idle EXCEPT !.pc = "returned", !.op = op, !.id = id, !.form = form,
                      !.result = [errors |-> FieldErrors(SchemaIssues(v, form)),
                                  message |-> ValidationMessage(op)]]
    ELSE [Idle EXCEPT !.pc = "threw", !.op = op, !.id = id, !.form = form,
                      !.thrown = [name |-> "ZodError", issues |-> SchemaIssues(v, form)]]

PendingInserts == Cardinality({r \in Requests : req[r].pc = "pending" /\ req[r].stmt.kind = "INSERT"})

Create(r, form) ==
    /\ req[r].pc = "idle"
    /\ calls < MaxCalls
    /\ nextId + PendingInserts <= MaxRows
    /\ calls' = calls + 1
    /\ req' = [req EXCEPT ![r] =
                 IF SchemaIssues(variant, form) # {}
                 THEN Rejected(variant, "create", 0, form)
                 ELSE Issued("create", 0, form, InsertStmt(ParsedData(form), today))]
    /\ UNCHANGED <<variant, today, invoices, nextId>>

Update(r, id, form) ==
    /\ req[r].pc = "idle"
    /\ calls < MaxCalls
    /\ calls' = calls + 1
    /\ req' = [req EXCEPT ![r] =
                 IF SchemaIssues(variant, form) # {}
                 THEN Rejected(variant, "update", id, form)
                 ELSE Issued("update", id, form, UpdateStmt(id, ParsedData(form)))]
    /\ UNCHANGED <<variant, today, invoices, nextId>>

Delete(r, id) ==
    /\ req[r].pc = "idle"
    /\ calls < MaxCalls
    /\ calls' = calls + 1
    /\ req' = [req EXCEPT ![r] = Issued("delete", id, NoForm, DeleteStmt(id))]
    /\ UNCHANGED <<variant, today, invoices, nextId>>

\* The outcome of a handler whose SQL statement was rejected: the error is
\* raised at the statement "sql".
OnSqlError(v, q) ==
    IF "sql" \in TryRegion(v, q.op)
    THEN [q EXCEPT !.pc = "returned", !.db = "error",
                   !.result = [message |-> DatabaseMessage(q.op)]]
    ELSE [q EXCEPT !.pc = "threw", !.db = "error", !.thrown = [name |-> "DatabaseError"]]

\* The outcome of a handler whose SQL statement succeeded: it makes the calls
\* of AfterWrite in order; redirect() raises NEXT_REDIRECT, which a catch
\* block around it would take for a database error.
OnSqlDone(v, q) ==
    LET calls_ == AfterWrite(q.op)
        logged == [q EXCEPT !.db = "ok", !.log = q.log \o calls_]
    IN IF "redirect" \notin {calls_[i] : i \in 1..Len(calls_)}
       THEN [logged EXCEPT !.pc = "returned"]
       ELSE IF "redirect" \in TryRegion(v, q.op)
       THEN [logged EXCEPT !.pc = "returned", !.result = [message |-> DatabaseMessage(q.op)]]
       ELSE [logged EXCEPT !.pc = "redirected", !.thrown = [name |-> "NEXT_REDIRECT"]]

\* The database executes the pending statement of request r atomically, or
\* fails it (connection loss, constraint violation) and changes nothing; the
\* await then ends and the handler runs to its end.
DbExecute(r, ok) ==
    /\ req[r].pc = "pending"
    /\ IF ok
       THEN /\ invoices' = Apply(invoices, req[r].stmt, nextId)
            /\ nextId' = IF req[r].stmt.kind = "INSERT" THEN nextId + 1 ELSE nextId
            /\ req' = [req EXCEPT ![r] =
                         [OnSqlDone(variant, req[r]) EXCEPT !.count = Affected(invoices, req[r].stmt)]]
       ELSE /\ UNCHANGED <<invoices, nextId>>
            /\ req' = [req EXCEPT ![r] = OnSqlError(variant, req[r])]
    /\ UNCHANGED <<variant, today, calls>>

\* The response has been delivered; the slot serves the next request.
Finish(r) ==
    /\ req[r].pc \in {"returned", "threw", "redirected"}
    /\ req' = [req EXCEPT ![r] = Idle]
    /\ UNCHANGED <<variant, today, invoices, nextId, calls>>

\* The server's calendar date advances.
Tick ==
    /\ today < MaxDay
    /\ today' = today + 1
    /\ UNCHANGED <<variant, invoices, nextId, calls, req>>

\* The row the table holds when the server starts: the row createInvoice
\* writes for {customerId: "c1", amount: "49.99", status: "pending"} on day 1.
SeedForm ==
    [customerId |-> Str("c1"), amount |-> Str(<<"4", "9", ".", "9", "9">>), status |-> Str("pending")]

SeedTable == Apply({}, InsertStmt(ParsedData(SeedForm), 1), 1)

Init ==
    /\ variant \in {"permissive", "strict"}
    /\ today = 1
    /\ invoices = SeedTable
    /\ nextId = 2
    /\ calls = 0
    /\ req = [r \in Requests |-> Idle]

\* Requests are served by the lowest free slot (the slots are interchangeable).
Free(r) == req[r].pc = "idle" /\ \A q \in Requests : q < r => req[q].pc # "idle"

\* Concurrent requests, forms of SystemForms.
Next ==
    \/ \E r \in Requests, form \in SystemForms : Free(r) /\ Create(r, form)
    \/ \E r \in Requests, id \in RowIds, form \in SystemForms : Free(r) /\ Update(r, id, form)
    \/ \E r \in Requests, id \in RowIds : Free(r) /\ Delete(r, id)
    \/ \E r \in Requests, ok \in BOOLEAN : DbExecute(r, ok)
    \/ \E r \in Requests : Finish(r)
    \/ Tick

Spec == Init /\ [][Next]_vars

\* One request at a time, every form of Forms.
NextForm ==
    \/ \E form \in Forms : Create(1, form)
    \/ \E id \in RowIds, form \in Forms : Update(1, id, form)
    \/ \E id \in RowIds : Delete(1, id)
    \/ \E ok \in BOOLEAN : DbExecute(1, ok)
    \/ Finish(1)

SpecForm == Init /\ [][NextForm]_vars

(* ------------------------------ properties ----------------------------- *)
FormOps == {"create", "update"}

\* Request r's handler is invoked in this step.
CallStep(r) == req[r].pc = "idle" /\ req'[r].pc # "idle"

\* The database settles request r's statement in this step.
SettleStep(r) == req[r].pc = "pending" /\ req'[r].pc # "pending"

Ids(table) == {row.id : row \in table}

\* C1: in the strict version, a createInvoice or updateInvoice call whose form
\* fails schema validation returns {errors, message} with the summary message
\* and a non-empty errors object, sends no SQL statement, calls neither
\* revalidatePath nor redirect, throws nothing and leaves the table as it was.
C1_ValidationFailureReturns ==
    [][\A r \in Requests :
          (/\ CallStep(r)
           /\ variant = "strict"
           /\ req'[r].op \in FormOps
           /\ SchemaIssues("strict", req'[r].form) # {})
          => /\ req'[r].pc = "returned"
             /\ DOMAIN req'[r].result = {"errors", "message"}
             /\ DOMAIN req'[r].result.errors # {}
             /\ req'[r].result.message =
                  (IF req'[r].op = "create" THEN "Missing fields. Failed to create invoice."
                   ELSE "Missing fields. Failed to update invoice.")
             /\ req'[r].stmt = NoStmt
             /\ req'[r].log = <<>>
             /\ req'[r].thrown.name = "none"
             /\ invoices' = invoices]_vars

C1_Witness ==
    \E r \in Requests :
        /\ variant = "strict"
        /\ req[r].op = "update"
        /\ req[r].pc = "returned"
        /\ "errors" \in DOMAIN req[r].result

\* C2: in the strict version, when the database fails the INSERT or UPDATE of a
\* createInvoice or updateInvoice call, the handler returns an object whose only
\* field is the generic message, throws nothing, calls neither revalidatePath
\* nor redirect, and the table is what it was before the statement.
C2_PersistenceFailureReturnsMessage ==
    [][\A r \in Requests :
          (/\ SettleStep(r)
           /\ variant = "strict"
           /\ req[r].op \in FormOps
           /\ req'[r].db = "error")
          => /\ req'[r].pc = "returned"
             /\ DOMAIN req'[r].result = {"message"}
             /\ req'[r].result.message =
                  (IF req[r].op = "create" THEN "Database Error: Failed to create invoice."
                   ELSE "Database Error: Failed to Update Invoice.")
             /\ req'[r].thrown.name = "none"
             /\ req'[r].log = <<"sql">>
             /\ invoices' = invoices]_vars

C2_Witness ==
    \E r \in Requests :
        /\ variant = "strict"
        /\ req[r].op = "create"
        /\ req[r].db = "error"
        /\ req[r].pc = "returned"

\* C3: in both versions, a createInvoice or updateInvoice call makes its calls in
\* the order SQL statement, revalidatePath, redirect; revalidatePath and redirect
\* are called exactly when the statement succeeded; and a call whose statement
\* succeeded ends in the redirect (NEXT_REDIRECT leaves the handler), never in a
\* returned "Database Error" object.
C3_WriteThenInvalidateThenRedirect ==
    \A r \in Requests :
        req[r].op \in FormOps =>
            /\ req[r].log \in {<<>>, <<"sql">>, <<"sql", "revalidatePath", "redirect">>}
            /\ (req[r].log = <<"sql", "revalidatePath", "redirect">>) <=> (req[r].db = "ok")
            /\ req[r].db = "ok" =>
                 /\ req[r].pc = "redirected"
                 /\ req[r].thrown.name = "NEXT_REDIRECT"
                 /\ DOMAIN req[r].result = {}

C3_Witness ==
    \E r \in Requests :
        /\ variant = "strict"
        /\ req[r].op = "create"
        /\ req[r].db = "ok"
        /\ req[r].pc = "redirected"

\* The submitted amount is a string that is <= 0 or not a number.
BadAmount(form) ==
    /\ form.amount.type = "string"
    /\ Number(form.amount).nan \/ Number(form.amount).num <= 0

\* C4 as stated: in either version, a createInvoice or updateInvoice call whose
\* amount is <= 0 or non-numeric returns a validation error that names the
\* amount field, sends no statement and does not throw.
C4_Original ==
    \A r \in Requests :
        (req[r].op \in FormOps /\ BadAmount(req[r].form))
        => /\ req[r].pc = "returned"
           /\ "errors" \in DOMAIN req[r].result
           /\ "amount" \in DOMAIN req[r].result.errors
           /\ req[r].stmt = NoStmt
           /\ req[r].thrown.name = "none"

\* C4 amended: in the strict version, a createInvoice or updateInvoice call whose
\* amount is <= 0 or non-numeric returns a validation error that names the
\* amount field, sends no statement and does not throw.
C4_StrictRejectsBadAmount ==
    \A r \in Requests :
        (variant = "strict" /\ req[r].op \in FormOps /\ BadAmount(req[r].form))
        => /\ req[r].pc = "returned"
           /\ "errors" \in DOMAIN req[r].result
           /\ "amount" \in DOMAIN req[r].result.errors
           /\ req[r].stmt = NoStmt
           /\ req[r].log = <<>>
           /\ req[r].thrown.name = "none"

C4_Witness ==
    \E r \in Requests :
        /\ variant = "strict"
        /\ req[r].op = "create"
        /\ req[r].form.amount = Str(<<"0">>)
        /\ req[r].form.customerId = Str("c1")
        /\ req[r].form.status = Str("paid")
        /\ req[r].pc = "returned"
        /\ DOMAIN req[r].result.errors = {"amount"}

\* C5 as stated: in the strict version, a createInvoice or updateInvoice call whose
\* customerId is the empty string returns a validation error on customerId
\* and sends no statement.
C5_EmptyCustomerIdRejected ==
    \A r \in Requests :
        (variant = "strict" /\ req[r].op \in FormOps /\ req[r].form.customerId = Str(""))
        => /\ req[r].pc = "returned"
           /\ "errors" \in DOMAIN req[r].result
           /\ "customerId" \in DOMAIN req[r].result.errors
           /\ req[r].stmt = NoStmt

\* The submitted status is one of the enum's values.
GoodStatus(form) == form.status \in {Str("pending"), Str("paid")}

\* A valid form: a customer, an amount > 0, a status of the enum.
ValidForm(form) ==
    /\ form.customerId.type = "string" /\ form.customerId.val # ""
    /\ ~Number(form.amount).nan /\ Number(form.amount).num > 0
    /\ GoodStatus(form)

\* C6 as stated: for every valid form the amount that a createInvoice or
\* updateInvoice call writes with its INSERT or UPDATE is a whole number of
\* cents, round(amount * 100).
C6_AmountIsRoundedCents ==
    \A r \in Requests :
        (req[r].op \in FormOps /\ req[r].db = "ok" /\ ValidForm(req[r].form))
        => /\ IsInteger(req[r].stmt.amount)
           /\ req[r].stmt.amount = Round(Times100(Number(req[r].form.amount)))

\* C7: every row of the table has status pending or paid, and a createInvoice or
\* updateInvoice call whose status is missing or outside {pending, paid} fails
\* validation with an issue on the status field (returned in errors by the
\* strict version, thrown in the ZodError by the permissive one) and sends no
\* statement.
C7_StatusInEnum ==
    /\ \A row \in invoices : row.status \in {"pending", "paid"}
    /\ \A r \in Requests :
          (req[r].op \in FormOps /\ ~GoodStatus(req[r].form))
          => /\ req[r].stmt = NoStmt
             /\ req[r].log = <<>>
             /\ IF variant = "strict"
                THEN /\ req[r].pc = "returned"
                     /\ "errors" \in DOMAIN req[r].result
                     /\ "status" \in DOMAIN req[r].result.errors
                ELSE /\ req[r].pc = "threw"
                     /\ req[r].thrown.name = "ZodError"
                     /\ \E i \in req[r].thrown.issues : i.path = "status"

C7_Witness ==
    \E r \in Requests :
        /\ req[r].op = "update"
        /\ req[r].form.status = Str("void")
        /\ req[r].form.customerId = Str("c1")
        /\ Number(req[r].form.amount).num > 0
        /\ req[r].pc \in {"returned", "threw"}

\* C8: no step of updateInvoice (its call, its UPDATE, its failure) changes the
\* date of any row or adds or removes a row; the date of a row never changes
\* once the row is inserted, and a row enters the table only by the INSERT of
\* a createInvoice call, with the date that call stamped.
C8_UpdateKeepsDate ==
    [][/\ \A old \in invoices : \A new \in invoices' : new.id = old.id => new.date = old.date
       /\ \A new \in invoices' :
             new.id \notin Ids(invoices)
             => \E r \in Requests :
                   SettleStep(r) /\ req[r].op = "create" /\ new.date = req[r].stmt.date
       /\ \A r \in Requests :
             (req'[r].op = "update" /\ (CallStep(r) \/ SettleStep(r)))
             => Ids(invoices') = Ids(invoices)]_vars

C8_Witness ==
    \E r \in Requests : \E row \in invoices :
        /\ req[r].op = "update"
        /\ req[r].db = "ok"
        /\ row.id = req[r].id
        /\ row.amount = req[r].stmt.amount
        /\ row.status = req[r].stmt.status
        /\ row.date < today

\* C9: when the database executes the DELETE of deleteInvoice(id) and a row
\* with that id is in the table, the step removes that row and nothing else,
\* every other row is unchanged, and the handler calls revalidatePath exactly
\* once, does not redirect and returns.
C9_DeleteRemovesExactlyOne ==
    [][\A r \in Requests :
          (/\ SettleStep(r)
           /\ req[r].op = "delete"
           /\ req'[r].db = "ok"
           /\ req[r].id \in Ids(invoices))
          => /\ invoices' \subseteq invoices
             /\ Ids(invoices \ invoices') = {req[r].id}
             /\ Cardinality(invoices \ invoices') = 1
             /\ req'[r].log = <<"sql", "revalidatePath">>
             /\ req'[r].pc = "returned"
             /\ req'[r].thrown.name = "none"]_vars

C9_Witness ==
    \E r \in Requests :
        /\ req[r].op = "delete"
        /\ req[r].db = "ok"
        /\ req[r].id = 1
        /\ Ids(invoices) = {2}

\* C10: when the database executes the UPDATE of a valid updateInvoice(id) and
\* no row has that id (it was deleted, or never created), the table is
\* unchanged, no row is created, and the handler still invalidates the listing
\* cache and redirects as on success.
C10_UpdateOfMissingRowSucceeds ==
    [][\A r \in Requests :
          (/\ SettleStep(r)
           /\ req[r].op = "update"
           /\ req'[r].db = "ok"
           /\ req[r].id \notin Ids(invoices))
          => /\ invoices' = invoices
             /\ req'[r].log = <<"sql", "revalidatePath", "redirect">>
             /\ req'[r].pc = "redirected"
             /\ DOMAIN req'[r].result = {}]_vars

C10_Witness ==
    \E r, d \in Requests :
        /\ req[d].op = "delete"
        /\ req[d].db = "ok"
        /\ req[r].op = "update"
        /\ req[r].id = req[d].id
        /\ req[r].id = 1
        /\ req[r].db = "ok"
        /\ req[r].count = 0
        /\ req[r].pc = "redirected"
        /\ 1 \notin Ids(invoices)

====
